---- MODULE Spec2Model ----
(***************************************************************************)
(* RTK Query Navigator (src/src/extension.ts).                             *)
(*                                                                         *)
(* Texts are sequences of one-character strings.  Offsets keep the code's  *)
(* 0-based convention: At(t, i) is the JavaScript t[i].                    *)
(***************************************************************************)
EXTENDS Integers, Sequences, FiniteSets, TLC

(***************************************************************************)
(* Characters                                                              *)
(***************************************************************************)
UpperSeq ==
  << "A","B","C","D","E","F","G","H","I","J","K","L","M",
     "N","O","P","Q","R","S","T","U","V","W","X","Y","Z" >>

LowerSeq ==
  << "a","b","c","d","e","f","g","h","i","j","k","l","m",
     "n","o","p","q","r","s","t","u","v","w","x","y","z" >>

Digits == { "0","1","2","3","4","5","6","7","8","9" }

Range(s) == { s[k] : k \in DOMAIN s }

\* The class \w of a JavaScript regular expression (no u flag): [A-Za-z0-9_].
IsWordChar(c) == c \in Range(UpperSeq) \cup Range(LowerSeq) \cup Digits \cup {"_"}

\* The class \s, restricted to the ASCII members.
IsSpace(c) == c \in { " ", "\t", "\n", "\r" }

\* Line terminators: what "." of a regular expression does not match.
IsLineTerminator(c) == c \in { "\n", "\r" }

\* String.prototype.toLowerCase on one ASCII character.
ToLowerCase(c) ==
  IF \E k \in DOMAIN UpperSeq : UpperSeq[k] = c
    THEN LowerSeq[CHOOSE k \in DOMAIN UpperSeq : UpperSeq[k] = c]
    ELSE c

At(t, i) == t[i + 1]

\* t.substring(a, b) for 0 <= a <= b <= t.length
Substring(t, a, b) == SubSeq(t, a + 1, b)

\* The literal lit occurs in t at offset i.
LitAt(t, i, lit) ==
  /\ i >= 0
  /\ i + Len(lit) <= Len(t)
  /\ \A k \in 1..Len(lit) : t[i + k] = lit[k]

StartsWith(t, lit) == LitAt(t, 0, lit)

EndsWith(t, lit) == LitAt(t, Len(t) - Len(lit), lit)

Min(S) == CHOOSE x \in S : \A y \in S : x <= y

\* \s* starting at offset i: the offset of the first non-space character.
RECURSIVE SkipSpaces(_, _)
SkipSpaces(t, i) ==
  IF i < Len(t) /\ IsSpace(At(t, i)) THEN SkipSpaces(t, i + 1) ELSE i

(***************************************************************************)
(* hookNameToEndpointName                                                  *)
(***************************************************************************)
use == << "u","s","e" >>
Query == << "Q","u","e","r","y" >>
LazyQuery == << "L","a","z","y","Q","u","e","r","y" >>
Mutation == << "M","u","t","a","t","i","o","n" >>

\* The alternation (Query|LazyQuery|Mutation) followed by $.
HookSuffixes == { Query, LazyQuery, Mutation }

\* null of string | null
NullName == << >>

\* The lengths m of group 1 (.+?) for which /^use(.+?)(Query|LazyQuery|Mutation)$/
\* matches hookName: the group is at least one character, none of them a line
\* terminator, and what follows it is exactly one of the suffixes.
HookGroupLengths(hookName) ==
  { m \in 1..Len(hookName) :
      /\ StartsWith(hookName, use)
      /\ 3 + m <= Len(hookName)
      /\ \A k \in 4..(3 + m) : ~IsLineTerminator(hookName[k])
      /\ SubSeq(hookName, 3 + m + 1, Len(hookName)) \in HookSuffixes }

Max(S) == CHOOSE x \in S : \A y \in S : x >= y

\* endpointName.charAt(0).toLowerCase() + endpointName.slice(1)
LowerFirst(endpointName) == << ToLowerCase(endpointName[1]) >> \o Tail(endpointName)

\* The value returned for the match whose group 1 has one of the lengths Ms
\* (null when there is none); shortest says which length the group takes.
HookMatchResult(hookName, Ms, shortest) ==
  IF Ms = {} THEN NullName
  ELSE LowerFirst(SubSeq(hookName, 4, 3 + (IF shortest THEN Min(Ms) ELSE Max(Ms))))

\* hookNameToEndpointName with a greedy group (.+) in place of the lazy (.+?).
hookNameToEndpointName_Greedy(hookName) ==
  HookMatchResult(hookName, HookGroupLengths(hookName), FALSE)

\* hookNameToEndpointName: the lazy group takes the shortest length that matches.
hookNameToEndpointName(hookName) ==
  HookMatchResult(hookName, HookGroupLengths(hookName), TRUE)

(***************************************************************************)
(* findEndpointsBlock                                                      *)
(***************************************************************************)
endpointsColon == << "e","n","d","p","o","i","n","t","s",":" >>
arrow == << "=", ">" >>

\* The offset of the first ")" at or after offset i, or -1.
RECURSIVE NextCloseParen(_, _)
NextCloseParen(t, i) ==
  IF i >= Len(t) THEN -1
  ELSE IF At(t, i) = ")" THEN i
  ELSE NextCloseParen(t, i + 1)

\* /endpoints:\s*\([^)]*\)\s*=>\s*\(/ matched at offset i: the offset just past
\* the match, or -1.  [^)]* can only end at the first ")" and \s* can only end at
\* the first non-space, so the match is unique.
EndpointsPatternEnd(t, i) ==
  IF ~LitAt(t, i, endpointsColon) THEN -1
  ELSE LET a == SkipSpaces(t, i + Len(endpointsColon))
       IN  IF ~LitAt(t, a, << "(" >>) THEN -1
           ELSE LET b == NextCloseParen(t, a + 1)
                IN  IF b = -1 THEN -1
                    ELSE LET c == SkipSpaces(t, b + 1)
                         IN  IF ~LitAt(t, c, arrow) THEN -1
                             ELSE LET d == SkipSpaces(t, c + 2)
                                  IN  IF LitAt(t, d, << "(" >>) THEN d + 1 ELSE -1

\* endpointsPattern.exec(text): the leftmost match, [index, end], or NoExec.
NoExec == [ index |-> -1, end |-> -1 ]

ExecResult(t, Is) ==
  IF Is = {} THEN NoExec
  ELSE [ index |-> Min(Is), end |-> EndpointsPatternEnd(t, Min(Is)) ]

EndpointsPatternExec(t) ==
  ExecResult(t, { i \in 0..(Len(t) - 1) : EndpointsPatternEnd(t, i) # -1 })

\* The grave accent (template-literal quote): one character, written by name
\* because a TLA+ string cannot hold it.
Backtick == "<backtick>"

QuoteChars == { "\"", "'", Backtick }

\* The for loop of findEndpointsBlock from offset i: the value of endIndex when
\* the loop ends.
RECURSIVE BlockScan(_, _, _, _, _, _)
BlockScan(t, i, depth, inString, stringChar, endIndex) ==
  IF i >= Len(t) THEN endIndex
  ELSE
    LET char     == At(t, i)
        prevChar == IF i > 0 THEN At(t, i - 1) ELSE ""
        quote    == char \in QuoteChars /\ prevChar # "\\"
        inString1 ==
          IF quote
            THEN IF ~inString THEN TRUE
                 ELSE IF char = stringChar THEN FALSE ELSE inString
            ELSE inString
        stringChar1 == IF quote /\ ~inString THEN char ELSE stringChar
    IN  IF inString1 THEN BlockScan(t, i + 1, depth, inString1, stringChar1, endIndex)
        ELSE IF char \in { "{", "(" }
          THEN BlockScan(t, i + 1, depth + 1, inString1, stringChar1, endIndex)
        ELSE IF char \in { "}", ")" }
          THEN IF depth - 1 < 0 THEN i
               ELSE BlockScan(t, i + 1, depth - 1, inString1, stringChar1, endIndex)
        ELSE BlockScan(t, i + 1, depth, inString1, stringChar1, endIndex)

\* null of { start, end } | null
NullBlock == [ start |-> -1, end |-> -1 ]

\* findEndpointsBlock from line 33 on, match being what exec returned.
BlockOfMatch(t, match) ==
  IF match = NoExec THEN NullBlock
  ELSE [ start |-> match.index,
         end   |-> BlockScan(t, match.end, 0, FALSE, "", match.end) ]

findEndpointsBlock(t) == BlockOfMatch(t, EndpointsPatternExec(t))

(***************************************************************************)
(* findEndpointDefinition                                                  *)
(***************************************************************************)
build == << "b","u","i","l","d" >>
er == << "e","r" >>
query == << "q","u","e","r","y" >>
mutation == << "m","u","t","a","t","i","o","n" >>

\* \b at offset i: exactly one of the characters before and at i is a word
\* character.
WordBoundary(t, i) ==
  (i > 0 /\ IsWordChar(At(t, i - 1))) # (i < Len(t) /\ IsWordChar(At(t, i)))

\* (query|mutation) at offset i
OperationAt(t, i) == LitAt(t, i, query) \/ LitAt(t, i, mutation)

\* What follows build(?:er)? from offset j: \.(query|mutation), or with
\* spaceTolerant \s*\.\s*(query|mutation).
DotOperationAt(t, j, spaceTolerant) ==
  IF spaceTolerant
    THEN LET a == SkipSpaces(t, j)
         IN  LitAt(t, a, << "." >>) /\ OperationAt(t, SkipSpaces(t, a + 1))
    ELSE LitAt(t, j, << "." >>) /\ OperationAt(t, j + 1)

\* \s*:\s*build(?:er)? and the rest, from offset i.  The optional group is tried
\* with "er" and, on failure, without it.
KeyTailAt(t, i, spaceTolerant) ==
  LET a == SkipSpaces(t, i)
      b == SkipSpaces(t, a + 1)
  IN  /\ LitAt(t, a, << ":" >>)
      /\ LitAt(t, b, build)
      /\ \/ LitAt(t, b + 5, er) /\ DotOperationAt(t, b + 7, spaceTolerant)
         \/ DotOperationAt(t, b + 5, spaceTolerant)

\* patterns[p] matches the region t at offset i, for the three entries of the
\* patterns array; endpointName is a word (\w+), so it stands for itself.
PatternAt(p, t, i, endpointName) ==
  CASE p = 1 ->
         /\ WordBoundary(t, i)
         /\ LitAt(t, i, endpointName)
         /\ KeyTailAt(t, i + Len(endpointName), FALSE)
    [] p = 2 ->
         /\ LitAt(t, i, << "'" >>) \/ LitAt(t, i, << "\"" >>)
         /\ LitAt(t, i + 1, endpointName)
         /\ \/ LitAt(t, i + 1 + Len(endpointName), << "'" >>)
            \/ LitAt(t, i + 1 + Len(endpointName), << "\"" >>)
         /\ KeyTailAt(t, i + 2 + Len(endpointName), FALSE)
    [] p = 3 ->
         /\ WordBoundary(t, i)
         /\ LitAt(t, i, endpointName)
         /\ KeyTailAt(t, i + Len(endpointName), TRUE)

NumPatterns == 3

\* pattern.exec(searchText) with lastIndex 0: the index of the leftmost match,
\* or -1.
LeftmostOrNone(Is) == IF Is = {} THEN -1 ELSE Min(Is)

PatternExec(p, t, endpointName) ==
  LeftmostOrNone({ i \in 0..(Len(t) - 1) : PatternAt(p, t, i, endpointName) })

\* null of Location | null, as an offset
NullOffset == -1

\* One regular expression for the three patterns: the leftmost match of any of
\* patterns[p..], whatever its place in the array.
FirstPatternMatch_EarliestOffset(p, searchText, endpointName) ==
  LeftmostOrNone({ i \in 0..(Len(searchText) - 1) :
                     \E q \in p..NumPatterns : PatternAt(q, searchText, i, endpointName) })

\* The for loop over patterns from patterns[p] on: the index of the match of
\* the first pattern that matches searchText, or -1.
RECURSIVE FirstPatternMatch(_, _, _)
FirstPatternMatch(p, searchText, endpointName) ==
  IF p > NumPatterns THEN -1
  ELSE IF PatternExec(p, searchText, endpointName) # -1
    THEN PatternExec(p, searchText, endpointName)
  ELSE FirstPatternMatch(p + 1, searchText, endpointName)

\* offset + match.index, or null
OffsetOfMatch(offset, index) == IF index = -1 THEN NullOffset ELSE offset + index

\* findEndpointDefinition from line 86 on, endpointsBlock being what
\* findEndpointsBlock returned.
MatchInRegion(t, endpointName, endpointsBlock) ==
  IF endpointsBlock # NullBlock
    THEN OffsetOfMatch(endpointsBlock.start,
           FirstPatternMatch(1, Substring(t, endpointsBlock.start, endpointsBlock.end),
                             endpointName))
    ELSE OffsetOfMatch(0, FirstPatternMatch(1, t, endpointName))

\* findEndpointDefinition on a document of text t: the offset handed to
\* document.positionAt, or NullOffset.
findEndpointDefinition(t, endpointName) ==
  MatchInRegion(t, endpointName, findEndpointsBlock(t))

(***************************************************************************)
(* State                                                                   *)
(***************************************************************************)
VARIABLES
  hookName,   \* an identifier handed to hookNameToEndpointName
  chunks,     \* how many pieces the identifier or text under test is made of
  nameCall,   \* the last call of hookNameToEndpointName: argument and result
  text,       \* a document text handed to findEndpointsBlock / findEndpointDefinition
  blockCall,  \* the last call of findEndpointsBlock: argument and result
  defCall,    \* the last call of findEndpointDefinition: arguments and result
  entries,    \* the entry points the user triggers: "click", "command"
  doc,        \* the active document: the word under the cursor and the text
  ws,         \* the workspace: the files each glob pattern lists, each file's state
  token,      \* token.isCancellationRequested of the click's caller
  lk,         \* per entry point, the lookup it runs
  search      \* per entry point, its call of searchInWorkspace

pureVars == << hookName, chunks, nameCall, text, blockCall, defCall >>
lookupVars == << entries, doc, ws, token, lk, search >>
vars == << hookName, chunks, nameCall, text, blockCall, defCall,
           entries, doc, ws, token, lk, search >>

NoNameCall == [ arg |-> << >>, result |-> NullName ]
NoBlockCall == [ arg |-> << >>, result |-> NullBlock ]
NoDefCall == [ arg |-> << >>, name |-> << >>, result |-> NullOffset ]

NameIdle == hookName = << >> /\ nameCall = NoNameCall
TextIdle == text = << >> /\ blockCall = NoBlockCall /\ defCall = NoDefCall

Entries == { "click", "command" }

\* null of Location | null, and a location: the document and the offset handed
\* to document.positionAt.
NullLocation == [ uri |-> "null", offset |-> -1 ]
Location(uri, offset) == [ uri |-> uri, offset |-> offset ]
\* new vscode.Location(uri, positionAt(offset)) for a match, null for none
LocationAt(uri, offset) ==
  IF offset = NullOffset THEN NullLocation ELSE Location(uri, offset)
\* The slot of a promise that has not settled.
Pending == [ uri |-> "pending", offset |-> -1 ]

NoLookup ==
  [ pc |-> "idle", word |-> << >>, endpointName |-> NullName, result |-> "none",
    location |-> NullLocation, message |-> "none", timer |-> "unset",
    timedOut |-> FALSE, caught |-> FALSE, cancelled |-> FALSE ]

NoSearch ==
  [ spc |-> "none", k |-> 0, files |-> << >>, results |-> << >>,
    value |-> NullLocation, enumerated |-> << >>, opened |-> {}, threw |-> FALSE ]

\* No lookup is under way: the state of the specifications of the pure functions.
LookupIdle ==
  /\ entries = {}
  /\ doc = [ word |-> << >>, text |-> << >> ]
  /\ ws = [ listing |-> << >>, file |-> << >> ]
  /\ token = FALSE
  /\ lk = [ e \in Entries |-> NoLookup ]
  /\ search = [ e \in Entries |-> NoSearch ]

(***************************************************************************)
(* Name Transformer on every identifier made of at most MaxNameChunks      *)
(* pieces                                                                  *)
(***************************************************************************)
MaxNameChunks == 4

Lazy == << "L","a","z","y" >>
GA == << "G","A" >>

NameChunks == { use, Query, Lazy, Mutation, GA, << "x" >> }

NameInit ==
  /\ hookName = << >>
  /\ chunks = 0
  /\ nameCall = NoNameCall
  /\ TextIdle
  /\ LookupIdle

NameAppend ==
  /\ chunks < MaxNameChunks
  /\ \E c \in NameChunks : hookName' = hookName \o c
  /\ chunks' = chunks + 1
  /\ UNCHANGED << nameCall, text, blockCall, defCall, lookupVars >>

NameApply ==
  /\ nameCall' = [ arg |-> hookName, result |-> hookNameToEndpointName(hookName) ]
  /\ UNCHANGED << hookName, chunks, text, blockCall, defCall, lookupVars >>

NameNext == NameAppend \/ NameApply

SpecName == NameInit /\ [][NameNext]_vars

\* The reference of the claim: use + a non-empty middle + a suffix.
RefIsHook(id) ==
  /\ StartsWith(id, use)
  /\ \E suf \in HookSuffixes : EndsWith(id, suf) /\ Len(id) > 3 + Len(suf)

\* The suffix the reference strips: all of LazyQuery when something is left.
RefSuffix(id) ==
  IF EndsWith(id, LazyQuery) /\ Len(id) > 3 + Len(LazyQuery) THEN LazyQuery
  ELSE IF EndsWith(id, Query) THEN Query
  ELSE Mutation

RefEndpointName(id) ==
  IF ~RefIsHook(id) THEN NullName
  ELSE LET middle == SubSeq(id, 4, Len(id) - Len(RefSuffix(id)))
       IN  [ k \in 1..Len(middle) |->
               IF k = 1 THEN ToLowerCase(middle[1]) ELSE middle[k] ]

\* C8: hookNameToEndpointName agrees with the reference on every identifier: no
\* match exactly when the identifier is not use + non-empty middle + suffix,
\* otherwise the middle with its first character lowercased, LazyQuery stripped
\* whole when a middle is left.
C8_NameTransformerAgrees ==
  /\ nameCall.result = RefEndpointName(nameCall.arg)
  /\ (nameCall.result = NullName) <=> ~RefIsHook(nameCall.arg)

\* A LazyQuery hook with a middle was transformed.
C8_Witness ==
  /\ nameCall.arg = use \o GA \o Lazy \o Query
  /\ nameCall.result = << "g", "A" >>

(***************************************************************************)
(* Block Locator on texts made of a marker and at most MaxBodyChunks       *)
(* further pieces                                                          *)
(***************************************************************************)
MaxBodyChunks == 5

\* endpoints: (b)=>(
Marker == endpointsColon \o << " ", "(", "b", ")", "=", ">", "(" >>

BodyChunks ==
  { << "{" >>, << "}" >>, << "(" >>, << ")" >>, << "\"" >>, << "'" >>, << "\\" >> }

BlockInit ==
  /\ text \in { Marker, << "x" >> \o Marker, Marker \o Marker }
  /\ chunks = 0
  /\ blockCall = NoBlockCall
  /\ defCall = NoDefCall
  /\ NameIdle
  /\ LookupIdle

BlockAppend ==
  /\ blockCall = NoBlockCall
  /\ chunks < MaxBodyChunks
  /\ \E c \in BodyChunks : text' = text \o c
  /\ chunks' = chunks + 1
  /\ UNCHANGED << hookName, nameCall, blockCall, defCall, lookupVars >>

BlockApply ==
  /\ blockCall = NoBlockCall
  /\ blockCall' = [ arg |-> text, result |-> findEndpointsBlock(text) ]
  /\ UNCHANGED << hookName, chunks, nameCall, text, defCall, lookupVars >>

BlockNext == BlockAppend \/ BlockApply

SpecBlock == BlockInit /\ [][BlockNext]_vars

\* The reference of the claim: a scan from offset i that reads string literals
\* as a lexer does (a backslash inside a literal escapes the next character) and
\* keeps the open brackets on a stack.  end is the offset of the ")" that closes
\* the marker's "(", or -1 when the region is not balanced.  inside says that
\* every backslash read so far stands inside a string literal.
RECURSIVE RefScan(_, _, _, _, _, _)
RefScan(t, i, stack, inString, stringChar, inside) ==
  IF i >= Len(t) THEN [ end |-> -1, inside |-> inside ]
  ELSE IF inString
    THEN IF At(t, i) = "\\"
           THEN RefScan(t, i + 2, stack, TRUE, stringChar, inside)
         ELSE IF At(t, i) = stringChar
           THEN RefScan(t, i + 1, stack, FALSE, "", inside)
         ELSE RefScan(t, i + 1, stack, TRUE, stringChar, inside)
  ELSE IF At(t, i) \in QuoteChars
    THEN RefScan(t, i + 1, stack, TRUE, At(t, i), inside)
  ELSE IF At(t, i) \in { "{", "(" }
    THEN RefScan(t, i + 1, << At(t, i) >> \o stack, FALSE, "", inside)
  ELSE IF At(t, i) = ")"
    THEN IF stack = << >> THEN [ end |-> i, inside |-> inside ]
         ELSE IF Head(stack) = "("
           THEN RefScan(t, i + 1, Tail(stack), FALSE, "", inside)
         ELSE [ end |-> -1, inside |-> inside ]
  ELSE IF At(t, i) = "}"
    THEN IF stack # << >> /\ Head(stack) = "{"
           THEN RefScan(t, i + 1, Tail(stack), FALSE, "", inside)
         ELSE [ end |-> -1, inside |-> inside ]
  ELSE RefScan(t, i + 1, stack, FALSE, "", inside /\ At(t, i) # "\\")

\* The offset of the first marker of a text of this specification.
RefFirstMarker(t) == Min({ i \in 0..(Len(t) - 1) : LitAt(t, i, Marker) })

RefBlock(t) ==
  RefScan(t, RefFirstMarker(t) + Len(Marker), << >>, FALSE, "", TRUE)

BlockCalled == blockCall # NoBlockCall

\* C10, on the texts whose backslashes all stand inside string literals:
\* whenever the region after the first marker is balanced outside
\* string literals, findEndpointsBlock returns the offset of the first marker and
\* the offset of the ")" that closes the marker's "(", whatever backslash escapes
\* the string literals hold.
C10_BlockEndAnyEscapes ==
  (BlockCalled /\ RefBlock(blockCall.arg).end # -1 /\ RefBlock(blockCall.arg).inside)
    => /\ blockCall.result.start = RefFirstMarker(blockCall.arg)
       /\ blockCall.result.end = RefBlock(blockCall.arg).end

(***************************************************************************)
(* Definition Matcher on texts made of at most MaxTextChunks pieces        *)
(***************************************************************************)
MaxTextChunks == 5

\* The candidate names: what hookNameToEndpointName gives for useGAQuery, useAQuery.
gA == << "g", "A" >>
CandidateNames == { gA, << "A" >> }

\* : build.query
TailQuery == << ":", " " >> \o build \o << "." >> \o query
\* :builder . mutation   (only the whitespace-tolerant pattern accepts it)
TailMutation == << ":" >> \o build \o er \o << " ", ".", " " >> \o mutation

TextChunks ==
  { gA, << "m" >>, << "$" >>, << "\"" >>, TailQuery, TailMutation, Marker, << ")" >> }

MatchInit ==
  /\ text = << >>
  /\ chunks = 0
  /\ blockCall = NoBlockCall
  /\ defCall = NoDefCall
  /\ NameIdle
  /\ LookupIdle

MatchAppend ==
  /\ defCall = NoDefCall
  /\ chunks < MaxTextChunks
  /\ \E c \in TextChunks : text' = text \o c
  /\ chunks' = chunks + 1
  /\ UNCHANGED << hookName, nameCall, blockCall, defCall, lookupVars >>

MatchApply ==
  /\ defCall = NoDefCall
  /\ text # << >>
  /\ \E n \in CandidateNames :
       defCall' = [ arg |-> text, name |-> n, result |-> findEndpointDefinition(text, n) ]
  /\ UNCHANGED << hookName, chunks, nameCall, text, blockCall, lookupVars >>

MatchNext == MatchAppend \/ MatchApply

SpecMatch == MatchInit /\ [][MatchNext]_vars

\* A character that can be part of a JavaScript identifier (ASCII).
IsIdentifierChar(c) == IsWordChar(c) \/ c = "$"

\* The reference of the claim: at offset o of t the candidate stands as a whole
\* key (no identifier character right before it), or o is the opening quote of
\* the quoted candidate, and a colon and a build./builder. query/mutation call
\* follow.
RefWholeKeyAt(t, o, name) ==
  \/ /\ LitAt(t, o, name)
     /\ o = 0 \/ ~IsIdentifierChar(At(t, o - 1))
     /\ KeyTailAt(t, o + Len(name), TRUE)
  \/ /\ LitAt(t, o, << "'" >>) \/ LitAt(t, o, << "\"" >>)
     /\ LitAt(t, o + 1, name)
     /\ \/ LitAt(t, o + 1 + Len(name), << "'" >>)
        \/ LitAt(t, o + 1 + Len(name), << "\"" >>)
     /\ KeyTailAt(t, o + 2 + Len(name), TRUE)

\* C9: every location findEndpointDefinition returns is, as an offset into the
\* full document, the start of the candidate as a whole key (or of its opening
\* quote) followed by ":" and a build./builder. query/mutation call, never a
\* place where the candidate is the tail of a longer identifier.
C9_WholeKeyOnly ==
  defCall.result # NullOffset
    => RefWholeKeyAt(defCall.arg, defCall.result, defCall.name)

(***************************************************************************)
(* Definition Matcher on texts made of at most MaxOrderChunks pieces that  *)
(* the three patterns tell apart                                           *)
(***************************************************************************)
MaxOrderChunks == 5

\* 'gA'
QuotedKey == << "'" >> \o gA \o << "'" >>

\* TailQuery is accepted by all patterns, TailMutation by the third only, and
\* QuotedKey is a key for the second only.
OrderChunks == { gA, QuotedKey, TailQuery, TailMutation, << ")" >>, Marker }

OrderAppend ==
  /\ defCall = NoDefCall
  /\ chunks < MaxOrderChunks
  /\ \E c \in OrderChunks : text' = text \o c
  /\ chunks' = chunks + 1
  /\ UNCHANGED << hookName, nameCall, blockCall, defCall, lookupVars >>

OrderNext == OrderAppend \/ MatchApply

SpecOrder == MatchInit /\ [][OrderNext]_vars

\* The region of the claim: the endpoints block when there is one, else the text.
RefRegionOf(t, block) ==
  IF block # NullBlock
    THEN [ start |-> block.start, text |-> Substring(t, block.start, block.end) ]
    ELSE [ start |-> 0, text |-> t ]

RefRegion(t) == RefRegionOf(t, findEndpointsBlock(t))

\* The offsets of the text r at which patterns[p] matches.
RefMatches(p, r, name) == { i \in 0..(Len(r) - 1) : PatternAt(p, r, i, name) }

\* result is what the claim says when the unquoted, the quoted and the
\* whitespace-tolerant pattern match the region at the offsets M1, M2 and M3.
RefDecided(start, result, M1, M2, M3) ==
  /\ result = NullOffset <=> (M1 = {} /\ M2 = {} /\ M3 = {})
  /\ M1 # {} => result = start + Min(M1)
  /\ (M1 = {} /\ M2 # {}) => result = start + Min(M2)
  /\ (M1 = {} /\ M2 = {} /\ M3 # {}) => result = start + Min(M3)

RefFirstPatternEarliest(region, name, result) ==
  RefDecided(region.start, result, RefMatches(1, region.text, name),
             RefMatches(2, region.text, name), RefMatches(3, region.text, name))

\* C11: findEndpointDefinition signals absence exactly when none of the three
\* patterns matches in the region; otherwise it returns the earliest match of
\* the first pattern, in the order unquoted, quoted, whitespace-tolerant, that
\* matches somewhere in the region, wherever the later patterns match.
C11_FirstPatternEarliestMatch ==
  defCall # NoDefCall
    => RefFirstPatternEarliest(RefRegion(defCall.arg), defCall.name, defCall.result)

\* The candidate is declared as a quoted key only, after a declaration that just
\* the whitespace-tolerant pattern accepts: the quoted key's offset is returned.
C11_Witness ==
  /\ defCall.arg = gA \o TailMutation \o QuotedKey \o TailQuery
  /\ defCall.name = gA
  /\ RefMatches(1, defCall.arg, gA) = {}
  /\ RefMatches(3, defCall.arg, gA) = { 0 }
  /\ defCall.result = Len(gA \o TailMutation)

(***************************************************************************)
(* Search Orchestrator: searchInWorkspace, provideDefinition,              *)
(* navigateToEndpoint                                                      *)
(***************************************************************************)
\* How many glob patterns the configuration lists (searchPatterns.length).
MaxPatterns == 2

Files == { "a.ts", "b.ts" }

\* What vscode.workspace.findFiles can return for one pattern: distinct files in
\* some order.
Listings ==
  { l \in UNION { [1..n -> Files] : n \in 0..Cardinality(Files) } :
      \A i, j \in DOMAIN l : i # j => l[i] # l[j] }

\* useGAQuery();
HookCall == use \o GA \o Query \o << "(", ")", ";" >>
\* gA: build.query
Declaration == gA \o TailQuery

FileWithDeclaration == Marker \o << "{" >> \o Declaration \o << "}", ")" >>
FileWithoutDeclaration == Marker \o << "{", "}", ")" >>

\* A file of the workspace: openTextDocument gives its text, or rejects.
FileStates ==
  { [ readable |-> TRUE,  text |-> FileWithDeclaration ],
    [ readable |-> TRUE,  text |-> FileWithoutDeclaration ],
    [ readable |-> FALSE, text |-> << >> ] }

\* The active document and the word getWordRangeAtPosition finds (<< >>: none).
Documents ==
  { [ word |-> use \o GA \o Query, text |-> HookCall \o Declaration ],
    [ word |-> use \o GA \o Query, text |-> HookCall \o FileWithDeclaration ],
    [ word |-> use \o GA \o Query, text |-> HookCall \o FileWithoutDeclaration \o Declaration ],
    [ word |-> use \o GA \o Query, text |-> HookCall ],
    [ word |-> use \o Query,       text |-> use \o Query \o << "(", ")" >> ],
    [ word |-> << "x" >>,          text |-> << "x", "(", ")" >> ],
    [ word |-> << >>,              text |-> << "(", ")" >> ] }

Started == [ NoLookup EXCEPT !.pc = "start" ]

LookupInit ==
  /\ doc \in Documents
  /\ ws \in [ listing : [1..MaxPatterns -> Listings], file : [Files -> FileStates] ]
  /\ token = FALSE
  /\ lk = [ e \in Entries |-> IF e \in entries THEN Started ELSE NoLookup ]
  /\ search = [ e \in Entries |-> NoSearch ]
  /\ chunks = 0
  /\ NameIdle
  /\ TextIdle

\* ---- searchInWorkspace ----

\* await vscode.workspace.findFiles(pattern, ...) for pattern k is issued.
IssueFindFiles(s, k) ==
  [ s EXCEPT !.spc = "findFiles", !.k = k, !.files = << >>, !.results = << >>,
             !.enumerated = Append(@, k) ]

\* return value of searchInWorkspace
Resolve(s, v) == [ s EXCEPT !.spc = "resolved", !.value = v ]

\* catch (error) { ...; return null; }
SearchCatch(s) == [ Resolve(s, NullLocation) EXCEPT !.threw = TRUE ]

\* The for loop goes on: the next pattern, or "Not found" after the last one.
NextPattern(s) ==
  IF s.k < MaxPatterns THEN IssueFindFiles(s, s.k + 1) ELSE Resolve(s, NullLocation)

\* The call of searchInWorkspace up to its first await: the configuration read
\* (which may throw) and findFiles for the first pattern.
searchInWorkspace(configThrows) ==
  IF configThrows THEN SearchCatch(NoSearch) ELSE IssueFindFiles(NoSearch, 1)

\* findFiles returned files: an empty batch is skipped, otherwise every file is
\* opened at once (files.map(async ...) under Promise.all).
FindFilesReturned(s, files) ==
  IF Len(files) = 0 THEN NextPattern(s)
  ELSE [ s EXCEPT !.spc = "reading", !.files = files,
                  !.results = [ i \in 1..Len(files) |-> Pending ],
                  !.opened = @ \cup { << s.k, files[i] >> : i \in 1..Len(files) } ]

\* One element of files.map: openTextDocument and findEndpointDefinition in a
\* try whose catch gives location null.
ScanFile(file, endpointName) ==
  IF ~ws.file[file].readable THEN NullLocation
  ELSE LocationAt(file, findEndpointDefinition(ws.file[file].text, endpointName))

\* results.find(r => r.location !== null), as the location or null
FirstOf(results, Is) == IF Is = {} THEN NullLocation ELSE results[Min(Is)]

FirstMatch(results) ==
  FirstOf(results, { i \in DOMAIN results : results[i] # NullLocation })

\* The i-th file's promise settles with r.  When it is the last one, Promise.all
\* resolves and the batch is decided: the first match is returned, or the loop
\* goes on.
\* BatchDecided without the return of line 167: the loop goes on to the next
\* pattern and the match is only returned from the last batch.
BatchDecided_KeepGoing(s, match) ==
  IF match # NullLocation /\ s.k = MaxPatterns THEN Resolve(s, match) ELSE NextPattern(s)

BatchDecided(s, match) ==
  IF match # NullLocation THEN Resolve(s, match) ELSE NextPattern(s)

\* AllSettled with the batch decided by the first read that finds a match,
\* whatever reads are still pending (Promise.any in place of Promise.all and
\* results.find).
AllSettled_FirstSettled(s) ==
  IF \E j \in DOMAIN s.results : s.results[j] \notin { Pending, NullLocation }
    THEN Resolve(s, FirstOf(s.results, { j \in DOMAIN s.results :
                                           s.results[j] \notin { Pending, NullLocation } }))
  ELSE IF \E j \in DOMAIN s.results : s.results[j] = Pending THEN s
  ELSE NextPattern(s)

\* AllSettled without the inner try/catch of lines 155-160: the rejection of
\* openTextDocument rejects Promise.all and lands in the outer catch.
AllSettled_FailFast(s) ==
  IF \E j \in DOMAIN s.results : s.results[j] = Pending THEN s
  ELSE IF \E j \in DOMAIN s.files : ~ws.file[s.files[j]].readable THEN SearchCatch(s)
  ELSE BatchDecided(s, FirstMatch(s.results))

AllSettled(s) ==
  IF \E j \in DOMAIN s.results : s.results[j] = Pending THEN s
  ELSE BatchDecided(s, FirstMatch(s.results))

OpenSettled(s, i, r) == AllSettled([ s EXCEPT !.results[i] = r ])

\* ---- the two entry points ----

\* return of provideDefinition
Return(l, loc) ==
  [ l EXCEPT !.pc = "done", !.location = loc,
             !.result = IF loc = NullLocation THEN "noresult" ELSE "found" ]

\* catch (error) { ...; return null; } of provideDefinition
ClickCatch(l) == [ Return(l, NullLocation) EXCEPT !.caught = TRUE ]

\* An exception leaves navigateToEndpoint, which has no try.
CommandThrow(l) == [ l EXCEPT !.pc = "done", !.result = "threw" ]

\* showErrorMessage(m); return
CommandError(l, m) ==
  [ l EXCEPT !.pc = "done", !.result = "noresult", !.message = m ]

\* navigateToEndpoint once location is known (lines 302-309): showTextDocument is
\* awaited for a location, "Endpoint not found" is shown for null.
AfterLookup(l, loc) ==
  IF loc # NullLocation THEN [ l EXCEPT !.pc = "navigate", !.location = loc ]
  ELSE CommandError(l, "Endpoint not found")

\* What the awaiting entry point does once its searchInWorkspace has the state s:
\* nothing while it is not resolved; the click's race settles with the value
\* unless the timer settled it before; the command goes on with the value.
AwaitSearch(e, l, s) ==
  IF s.spc # "resolved" THEN l
  ELSE IF e = "click" THEN (IF l.pc = "racing" THEN Return(l, s.value) ELSE l)
  ELSE (IF l.pc = "searching" THEN AfterLookup(l, s.value) ELSE l)

\* The test of lines 203-204 / 280-281
LooksLikeHook(word) ==
  /\ StartsWith(word, use)
  /\ EndsWith(word, Query) \/ EndsWith(word, LazyQuery) \/ EndsWith(word, Mutation)

\* findEndpointDefinition(document, endpointName) on the active document
ScanDocument(endpointName) ==
  LocationAt("active", findEndpointDefinition(doc.text, endpointName))

\* Lines 195-212 / 270-290 once the word is known: what the entry point goes on
\* with; noWord, notHook and notParsed are its three early returns.
WordChecked(l, word, endpointName, noWord, notHook, notParsed) ==
  IF word = << >> THEN noWord
  ELSE IF ~LooksLikeHook(word) THEN notHook
  ELSE IF endpointName = NullName THEN notParsed
  ELSE [ l EXCEPT !.pc = "scanDocument", !.word = word, !.endpointName = endpointName ]

\* provideDefinition, lines 217-228, currentDocLocation being what
\* findEndpointDefinition returned.
ClickScanned(l, currentDocLocation) ==
  IF currentDocLocation # NullLocation THEN Return(l, currentDocLocation)
  ELSE [ l EXCEPT !.pc = "checkCancelled" ]

\* provideDefinition, lines 193-214: the word, the hook test, the endpoint name.
provideDefinition_GetWord ==
  /\ lk["click"].pc = "start"
  /\ \E throws \in BOOLEAN :
       lk' = [ lk EXCEPT !["click"] =
                 IF throws THEN ClickCatch(@)
                 ELSE WordChecked(@, doc.word, hookNameToEndpointName(doc.word),
                                  Return(@, NullLocation), Return(@, NullLocation),
                                  Return(@, NullLocation)) ]
  /\ UNCHANGED << pureVars, entries, doc, ws, token, search >>

\* provideDefinition, lines 216-222: the current document.
provideDefinition_ScanDocument ==
  /\ lk["click"].pc = "scanDocument"
  /\ \E throws \in BOOLEAN :
       lk' = [ lk EXCEPT !["click"] =
                 IF throws THEN ClickCatch(@)
                 ELSE ClickScanned(@, ScanDocument(@.endpointName)) ]
  /\ UNCHANGED << pureVars, entries, doc, ws, token, search >>

\* provideDefinition without the check of lines 225-228.
IsCancellationRequested_Never == FALSE

\* Whether provideDefinition returns at the check of token.isCancellationRequested.
IsCancellationRequested == token

\* provideDefinition, lines 224-242: the cancellation check, then the timer and
\* the call of searchInWorkspace that Promise.race awaits.
provideDefinition_SearchWorkspace ==
  /\ lk["click"].pc = "checkCancelled"
  /\ IF IsCancellationRequested
       THEN /\ lk' = [ lk EXCEPT !["click"] =
                         [ Return(@, NullLocation) EXCEPT !.cancelled = TRUE ] ]
            /\ UNCHANGED search
       ELSE \E configThrows \in BOOLEAN :
              /\ search' = [ search EXCEPT !["click"] = searchInWorkspace(configThrows) ]
              /\ lk' = [ lk EXCEPT !["click"] =
                           AwaitSearch("click",
                                       [ @ EXCEPT !.pc = "racing", !.timer = "armed" ],
                                       search'["click"]) ]
  /\ UNCHANGED << pureVars, entries, doc, ws, token >>

\* A timer whose callback does not resolve the promise that takes part in the
\* race.
TimeoutSettles_Ignored(l) == [ l EXCEPT !.timer = "fired" ]

\* The settled race when the timer fires: null, unless searchInWorkspace settled
\* it before.
TimeoutSettles(l) ==
  IF l.pc = "racing"
    THEN [ Return(l, NullLocation) EXCEPT !.timer = "fired", !.timedOut = TRUE ]
    ELSE [ l EXCEPT !.timer = "fired" ]

\* The setTimeout callback of lines 233-236 runs: resolve(null).
provideDefinition_Timeout ==
  /\ lk["click"].timer = "armed"
  /\ lk' = [ lk EXCEPT !["click"] = TimeoutSettles(@) ]
  /\ UNCHANGED << pureVars, entries, doc, ws, token, search >>

\* The caller of provideDefinition cancels the request.
Cancel ==
  /\ "click" \in entries
  /\ ~token
  /\ token' = TRUE
  /\ UNCHANGED << pureVars, entries, doc, ws, lk, search >>

\* navigateToEndpoint, lines 264-292: the editor, the word, the hook test.
navigateToEndpoint_GetWord ==
  /\ lk["command"].pc = "start"
  /\ \E throws \in BOOLEAN, editor \in BOOLEAN :
       lk' = [ lk EXCEPT !["command"] =
                 IF ~editor THEN CommandError(@, "No active editor")
                 ELSE IF throws THEN CommandThrow(@)
                 ELSE WordChecked(@, doc.word, hookNameToEndpointName(doc.word),
                                  CommandError(@, "No word found at cursor"),
                                  CommandError(@, "Not an RTK Query hook"),
                                  CommandError(@, "Could not parse hook name")) ]
  /\ UNCHANGED << pureVars, entries, doc, ws, token, search >>

\* navigateToEndpoint, lines 294-300: the current document, then the workspace.
navigateToEndpoint_ScanDocument ==
  /\ lk["command"].pc = "scanDocument"
  /\ \E throws \in BOOLEAN, configThrows \in BOOLEAN,
        location \in { ScanDocument(lk["command"].endpointName) } :
       IF throws
         THEN /\ lk' = [ lk EXCEPT !["command"] = CommandThrow(@) ]
              /\ UNCHANGED search
       ELSE IF location # NullLocation
         THEN /\ lk' = [ lk EXCEPT !["command"] = AfterLookup(@, location) ]
              /\ UNCHANGED search
       ELSE /\ search' = [ search EXCEPT !["command"] = searchInWorkspace(configThrows) ]
            /\ lk' = [ lk EXCEPT !["command"] =
                         AwaitSearch("command", [ @ EXCEPT !.pc = "searching" ],
                                     search'["command"]) ]
  /\ UNCHANGED << pureVars, entries, doc, ws, token >>

\* navigateToEndpoint, lines 303-306: showTextDocument resolves or rejects.
navigateToEndpoint_ShowTextDocument ==
  /\ lk["command"].pc = "navigate"
  /\ \E throws \in BOOLEAN :
       lk' = [ lk EXCEPT !["command"] =
                 IF throws THEN CommandThrow(@)
                 ELSE [ @ EXCEPT !.pc = "done", !.result = "found", !.message = "Found" ] ]
  /\ UNCHANGED << pureVars, entries, doc, ws, token, search >>

\* findFiles settles for the search of entry point e: it rejects, or returns the
\* files the workspace lists for the pattern.
FindFilesSettles(e) ==
  /\ search[e].spc = "findFiles"
  /\ \E throws \in BOOLEAN :
       search' = [ search EXCEPT ![e] =
                     IF throws THEN SearchCatch(@)
                     ELSE FindFilesReturned(@, ws.listing[@.k]) ]
  /\ lk' = [ lk EXCEPT ![e] = AwaitSearch(e, @, search'[e]) ]
  /\ UNCHANGED << pureVars, entries, doc, ws, token >>

\* The promise of the i-th file of the batch settles, in any order.
OpenSettles(e) ==
  /\ search[e].spc = "reading"
  /\ \E i \in DOMAIN search[e].results :
       /\ search[e].results[i] = Pending
       /\ search' = [ search EXCEPT ![e] =
                        OpenSettled(@, i, ScanFile(@.files[i], lk[e].endpointName)) ]
  /\ lk' = [ lk EXCEPT ![e] = AwaitSearch(e, @, search'[e]) ]
  /\ UNCHANGED << pureVars, entries, doc, ws, token >>

LookupNext ==
  \/ provideDefinition_GetWord
  \/ provideDefinition_ScanDocument
  \/ provideDefinition_SearchWorkspace
  \/ provideDefinition_Timeout
  \/ Cancel
  \/ navigateToEndpoint_GetWord
  \/ navigateToEndpoint_ScanDocument
  \/ navigateToEndpoint_ShowTextDocument
  \/ \E e \in Entries : FindFilesSettles(e)
  \/ \E e \in Entries : OpenSettles(e)

\* One lookup, through either entry point.
Init == entries \in { { "click" }, { "command" } } /\ LookupInit

Spec == Init /\ [][LookupNext]_vars

\* Both entry points, run on the same document and workspace.
PairInit == entries = Entries /\ LookupInit

SpecPair == PairInit /\ [][LookupNext]_vars

\* One lookup, with the timer of setTimeout firing once it is armed.
SpecLive == Init /\ [][LookupNext]_vars /\ WF_vars(provideDefinition_Timeout)

(***************************************************************************)
(* Properties of the lookups                                               *)
(***************************************************************************)
\* The text declares the endpoint: one of the three patterns matches somewhere.
DeclaredIn(t, endpointName) ==
  \E p \in 1..NumPatterns : PatternExec(p, t, endpointName) # -1

\* The file can be read and findEndpointDefinition finds the endpoint in it.
FileMatches(f, endpointName) ==
  /\ ws.file[f].readable
  /\ findEndpointDefinition(ws.file[f].text, endpointName) # NullOffset

\* The batch of pattern k has a matching file.
BatchMatches(k, endpointName) ==
  \E i \in DOMAIN ws.listing[k] : FileMatches(ws.listing[k][i], endpointName)

\* C1: a click lookup on a document whose text declares the endpoint somewhere,
\* once past the scan of the document (and with no exception on the way), has
\* ended with a location in the active document, without a call of
\* searchInWorkspace and without a timer.
C1_DeclarationAnywhereFoundInDocument ==
  ( /\ lk["click"].pc \notin { "idle", "start", "scanDocument" }
    /\ lk["click"].endpointName # NullName
    /\ ~lk["click"].caught
    /\ DeclaredIn(doc.text, lk["click"].endpointName) )
  => /\ lk["click"].pc = "done"
     /\ lk["click"].result = "found"
     /\ lk["click"].location.uri = "active"
     /\ search["click"] = NoSearch
     /\ lk["click"].timer = "unset"

\* C2: in every search the patterns are enumerated in their order, one at a
\* time (no read of a batch is pending while findFiles is, and only enumerated
\* patterns have files opened); no pattern is enumerated after one whose batch
\* has a matching file; and a returned location is that of a matching file of
\* the last pattern enumerated, which is the earliest one with a matching file.
C2_EarliestMatchingBatchWins ==
  \A e \in Entries :
    /\ search[e].enumerated = [ i \in 1..Len(search[e].enumerated) |-> i ]
    /\ search[e].spc \in { "findFiles", "reading" }
         => search[e].k = Len(search[e].enumerated)
    /\ search[e].spc = "findFiles"
         => /\ search[e].results = << >>
            /\ \A o \in search[e].opened : o[1] < search[e].k
    /\ \A o \in search[e].opened : o[1] \in 1..Len(search[e].enumerated)
    /\ \A k \in 1..Len(search[e].enumerated) :
         \A j \in 1..(k - 1) : ~BatchMatches(j, lk[e].endpointName)
    /\ (search[e].spc = "resolved" /\ search[e].value # NullLocation)
         => \E i \in DOMAIN ws.listing[Len(search[e].enumerated)] :
              /\ search[e].value.uri = ws.listing[Len(search[e].enumerated)][i]
              /\ FileMatches(search[e].value.uri, lk[e].endpointName)

\* A search returned the match of the first batch while the second pattern's
\* batch has a matching file too, and the second pattern was not enumerated.
C2_Witness ==
  \E e \in Entries :
    /\ search[e].spc = "resolved"
    /\ search[e].value # NullLocation
    /\ search[e].enumerated = << 1 >>
    /\ BatchMatches(2, lk[e].endpointName)
    /\ \A i \in DOMAIN ws.listing[2] : ws.listing[2][i] # search[e].value.uri

ClickOutcome == << lk["click"].pc, lk["click"].result, lk["click"].location >>

\* C3: a click lookup that awaits the race ends; one the timer ended has the
\* outcome "no result", not from the catch; and the outcome of an ended lookup
\* does not change, whatever the search does afterwards.
C3_TimeoutBoundsLookup ==
  /\ (lk["click"].pc = "racing") ~> (lk["click"].pc = "done")
  /\ [](lk["click"].timedOut
          => /\ lk["click"].pc = "done"
             /\ lk["click"].result = "noresult"
             /\ lk["click"].location = NullLocation
             /\ ~lk["click"].caught)
  /\ [][lk["click"].pc = "done" => ClickOutcome' = ClickOutcome]_vars

\* The timer ended the lookup and the search went on to return a match.
C3_Witness ==
  /\ lk["click"].timedOut
  /\ search["click"].spc = "resolved"
  /\ search["click"].value # NullLocation
  /\ lk["click"].result = "noresult"

\* C4: a step of the click lookup from the cancellation check with the token
\* signaled ends the lookup as cancelled and starts no search; a lookup ended
\* that way has no result, no search (no findFiles, no file opened) and no timer.
C4_CancellationAbandonsWorkspace ==
  /\ [](lk["click"].cancelled
          => /\ lk["click"].pc = "done"
             /\ lk["click"].result = "noresult"
             /\ lk["click"].location = NullLocation
             /\ search["click"] = NoSearch
             /\ lk["click"].timer = "unset")
  /\ [][(lk["click"].pc = "checkCancelled" /\ token /\ lk'["click"] # lk["click"])
          => (lk'["click"].cancelled /\ search'["click"] = NoSearch)]_vars

\* The lookup found nothing in the document and ended at the cancellation check.
C4_Witness ==
  /\ lk["click"].cancelled
  /\ lk["click"].endpointName # NullName
  /\ ~DeclaredIn(doc.text, lk["click"].endpointName)

\* C5: while a batch is read every file of it has been opened, and a settled
\* read gives the file's match, or null for a file without one or an unreadable
\* one; a step from the reading of a batch never enters the catch of the search;
\* and a search that ended outside the catch returned a match exactly when some
\* batch has a readable matching file, after all patterns when it returned none.
C5_UnreadableFileIsNonMatch ==
  /\ [](\A e \in Entries :
          /\ search[e].spc = "reading"
               => /\ search[e].files = ws.listing[search[e].k]
                  /\ DOMAIN search[e].results = DOMAIN search[e].files
                  /\ \A i \in DOMAIN search[e].files :
                       /\ << search[e].k, search[e].files[i] >> \in search[e].opened
                       /\ search[e].results[i] # Pending
                            => ( search[e].results[i] # NullLocation
                                   <=> FileMatches(search[e].files[i], lk[e].endpointName) )
          /\ (search[e].spc = "resolved" /\ ~search[e].threw)
               => /\ search[e].value # NullLocation
                       <=> \E k \in 1..MaxPatterns : BatchMatches(k, lk[e].endpointName)
                  /\ search[e].value = NullLocation
                       => Len(search[e].enumerated) = MaxPatterns)
  /\ [][\A e \in Entries :
          search[e].spc = "reading" => ~search'[e].threw]_vars

\* A search returned a match from a batch that lists an unreadable file before
\* the matching one.
C5_Witness ==
  \E e \in Entries :
    /\ search[e].spc = "resolved"
    /\ ~search[e].threw
    /\ search[e].value # NullLocation
    /\ Len(search[e].files) = 2
    /\ ~ws.file[search[e].files[1]].readable
    /\ search[e].value.uri = search[e].files[2]

\* The reads of the batch that have not settled.
PendingReads(s) == { i \in DOMAIN s.results : s.results[i] = Pending }

\* The places in the list findFiles returned of the files that match.
MatchingPlaces(s, endpointName) ==
  { i \in DOMAIN s.files : FileMatches(s.files[i], endpointName) }

\* C12: a search leaves the reading of a batch only by the step that settles the
\* batch's last pending read; and a search that returned a match has no read
\* pending and returned the location of the matching file that comes first in
\* the list findFiles returned, in whatever order the reads settled.
C12_FirstListedMatchWins ==
  /\ [](\A e \in Entries :
          (search[e].spc = "resolved" /\ search[e].value # NullLocation)
            => /\ PendingReads(search[e]) = {}
               /\ MatchingPlaces(search[e], lk[e].endpointName) # {}
               /\ search[e].value.uri =
                    search[e].files[Min(MatchingPlaces(search[e], lk[e].endpointName))])
  /\ [][\A e \in Entries :
          (search[e].spc = "reading" /\ search'[e].spc # "reading")
            => Cardinality(PendingReads(search[e])) = 1]_vars

\* Both files of a batch match and the read of the second one settled first: the
\* batch is not decided while the first one is pending.
C12_Witness ==
  \E e \in Entries :
    /\ search[e].spc = "reading"
    /\ Len(search[e].files) = 2
    /\ PendingReads(search[e]) = { 1 }
    /\ search[e].results[2] # NullLocation
    /\ FileMatches(search[e].files[1], lk[e].endpointName)

\* C6: no exception leaves provideDefinition or navigateToEndpoint.
C6_NoExceptionEscapes ==
  \A e \in Entries : lk[e].result # "threw"

\* C7: the click lookup and the command, run on the same document and workspace
\* with no exception and no cancellation, and with the two searches having run
\* to the same end, end with the same outcome and location.
C7_CommandSameAsClick ==
  ( /\ lk["click"].pc = "done"
    /\ lk["command"].pc = "done"
    /\ lk["command"].message # "No active editor"
    /\ ~lk["click"].caught /\ ~lk["click"].cancelled
    /\ lk["command"].result # "threw"
    /\ search["click"] = search["command"]
    /\ ~search["click"].threw )
  => /\ lk["click"].result = lk["command"].result
     /\ lk["click"].result = "found" => lk["click"].location = lk["command"].location

====
